---- MODULE Spec2Model ----
(***************************************************************************)
(* Generation job orchestrator: the in-memory job store and its progress   *)
(* callbacks (api/jobs/queue.ts), the job processor (api/jobs/             *)
(* processor.ts), the image-generation adapters it calls and the public    *)
(* ProductGenerationAPI (api/index.ts).                                    *)
(*                                                                         *)
(* JavaScript runs one task at a time: an action of this module is one     *)
(* synchronous run of code between two suspension points (await).          *)
(***************************************************************************)
EXTENDS Integers, Sequences, FiniteSets, TLC

(***************************************************************************)
(* Bounds of the model.                                                    *)
(***************************************************************************)
MaxRuns == 1
MaxJobs == 2
MaxSubs == 2
MaxApplied == 7
MaxObserved == 4
MaxResponses == 3
MaxTicks == 3

(***************************************************************************)
(* Program constants.                                                      *)
(***************************************************************************)
DefaultMaxConcurrentJobs == 5
MaxImageSize == 10485760
MaxBrandNameLength == 100
MaxProductNameLength == 200
MinPackageVariations == 1
MaxPackageVariations == 10
DefaultPackageVariations == 3
ImageConcurrency == 2
DefaultCleanupIntervalMs == 600000
DefaultMaxAgeMs == 3600000

Steps == {"analysis", "packages", "ads", "texts"}
JobStatuses == {"pending", "processing", "completed", "failed"}
StepStatuses == {"pending", "processing", "done", "failed", "skipped"}

DefaultAdPlatforms ==
  <<"instagram-square", "twitter-card", "facebook-feed", "web-banner-medium-rectangle">>

\* An optional field: not set (undefined), or set to a value.
Unset == [set |-> FALSE]

Some(v) == [set |-> TRUE, val |-> v]

Min(a, b) == IF a <= b THEN a ELSE b

VARIABLES
  config,            \* ProductGenerationAPI.config
  jobs,              \* queue.ts: const jobs = new Map<string, Job>()
  progressCallbacks, \* queue.ts: Map<jobId, Set<ProgressCallback>>, as jobId -> Set object
  callbackSets,      \* the Set objects: set id -> callbacks in insertion order
  subs,              \* every callback ever registered: its job, its Set, the events it got
  processingJobs,    \* processor.ts: const processingJobs = new Set<string>()
  pipeline,          \* the processJob runs: job id -> position and local `result`
  applied,           \* per job id: how many mutations the store has applied to it
  nextJobId,         \* the ids randomUUID has handed out are 1 .. nextJobId-1
  lastResponse,      \* what the last startGeneration call returned or threw
  now                \* the clock read by new Date() / Date.now()

vars == <<config, jobs, progressCallbacks, callbackSets, subs, processingJobs,
          pipeline, applied, nextJobId, lastResponse, now>>

(***************************************************************************)
(* The job store and its callbacks, as one value the store functions       *)
(* transform: a handler that makes several store calls composes them.      *)
(***************************************************************************)
Store == [jobs |-> jobs, progressCallbacks |-> progressCallbacks,
          callbackSets |-> callbackSets, subs |-> subs, applied |-> applied]

\* api/index.ts subscribeProgress: the event the API builds from the job it is handed.
ProgressEvent(job, version, isReplay) ==
  [type |-> IF job.status = "completed" THEN "complete"
            ELSE IF job.status = "failed" THEN "error" ELSE "progress",
   jobId |-> job.id,
   status |-> job.status,
   progress |-> job.progress,
   result |-> IF job.status = "completed" THEN job.result ELSE Unset,
   message |-> job.error,
   version |-> version,
   replay |-> isReplay]

Restrict(f, D) == [x \in D |-> f[x]]

Remove(seq, x) == SelectSeq(seq, LAMBDA y : y # x)

\* What the callbacks registered do when they are called: "passive" only looks at the
\* event; "waiter" is the callback of waitForCompletion; "mutator" updates the job on
\* the first event it is notified of; "thrower" throws an error whenever it is
\* called; "prober" reads the active count (getSystemStatus().processingCount, the
\* count startGeneration compares with the limit) whenever it is called;
\* "resubscriber" subscribes another callback to
\* the job when it is notified of the terminal event.
CallbackKinds == {"passive", "waiter", "mutator", "resubscriber", "thrower", "prober"}

\* A fresh closure c for job jobId. The callback of waitForCompletion comes with a
\* pending promise and its timer armed (api/index.ts:314-318).
NewCallback(S, c, jobId, kind) ==
  [S EXCEPT
     !.subs = [k \in DOMAIN @ \cup {c} |->
                 IF k = c
                 THEN [jobId |-> jobId, set |-> 0, log |-> <<>>, unsubscribed |-> FALSE,
                       kind |-> kind, fired |-> FALSE,
                       promise |-> IF kind = "waiter" THEN "pending" ELSE "none",
                       outcome |-> Unset,
                       timer |-> kind = "waiter",
                       settles |-> 0]
                 ELSE @[k]]]

\* Mutant: the handle drops the map entry of an empty Set but deletes no callback.
unsubscribeKeepsCallback(S, c) ==
  LET setId == S.subs[c].set
      jobId == S.subs[c].jobId
      S1 == [S EXCEPT !.subs[c].unsubscribed = TRUE]
  IN IF S1.callbackSets[setId] = <<>>
     THEN [S1 EXCEPT !.progressCallbacks = Restrict(@, DOMAIN @ \ {jobId})]
     ELSE S1

\* The closure subscribeProgress returns: it keeps the Set object it registered in.
unsubscribe(S, c) ==
  LET setId == S.subs[c].set
      jobId == S.subs[c].jobId
      S1 == [S EXCEPT !.callbackSets[setId] = Remove(@, c),
                      !.subs[c].unsubscribed = TRUE]
  IN IF S1.callbackSets[setId] = <<>>
     THEN [S1 EXCEPT !.progressCallbacks = Restrict(@, DOMAIN @ \ {jobId})]
     ELSE S1

\* resolve(value) or reject(reason) of the promise of waiter c: the first call settles
\* the promise, a later call changes nothing.
Settle(S, c, promise, outcome) ==
  [S EXCEPT !.subs[c].settles = @ + 1,
            !.subs[c].promise = IF @ = "pending" THEN promise ELSE @,
            !.subs[c].outcome = IF S.subs[c].promise = "pending" THEN Some(outcome) ELSE @]

\* Mutant: the callback of waitForCompletion settles the promise and keeps listening.
waiterCallbackKeepsListening(S, c, ev, handleReady) ==
  IF ev.type = "complete"
  THEN Settle([S EXCEPT !.subs[c].timer = FALSE], c, "resolved",
              [kind |-> "job", jobId |-> ev.jobId])
  ELSE IF ev.type = "error"
  THEN Settle([S EXCEPT !.subs[c].timer = FALSE], c, "rejected",
              [kind |-> "error", message |-> ev.message])
  ELSE S

\* api/index.ts:320-335, the callback waitForCompletion subscribes. `unsubscribe` is
\* the const being initialised by the very subscribeProgress call, so a call of it
\* before that call has returned (handleReady false) throws; the exception leaves the
\* promise executor, which rejects the promise with it.
waiterCallback(S, c, ev, handleReady) ==
  IF ev.type \in {"complete", "error"}
  THEN LET S1 == [S EXCEPT !.subs[c].timer = FALSE]
       IN IF ~handleReady
          THEN Settle(S1, c, "rejected", [kind |-> "uninitialized", message |-> Unset])
          ELSE LET S2 == unsubscribe(S1, c)
               IN IF ev.type = "error"
                  THEN Settle(S2, c, "rejected",
                              [kind |-> "error",
                               message |-> IF ev.message.set /\ ev.message.val # <<>>
                                           THEN ev.message ELSE Some(<<"Job failed">>)])
                  ELSE IF ev.jobId \in DOMAIN S2.jobs
                  THEN Settle(S2, c, "resolved", [kind |-> "job", jobId |-> ev.jobId])
                  ELSE Settle(S2, c, "rejected", [kind |-> "notfound", message |-> Unset])
  ELSE S

RECURSIVE notifyProgress(_, _)
RECURSIVE Deliver(_, _, _, _)
RECURSIVE DeliverUncaught(_, _, _, _)
RECURSIVE Invoke(_, _, _, _)
RECURSIVE updateJobProgress(_, _, _, _)
RECURSIVE subscribeProgress(_, _, _, _)

\* Callback c is called with the job (by reference: the event the API wrapper builds
\* shows the job as it is at the time of the call) and runs. The set processingJobs
\* is the same throughout the notifications of a step: processJob adds the id before
\* its first store call and removes it in its finally block, after its last one.
Invoke(S, c, id, isReplay) ==
  LET ev == ProgressEvent(S.jobs[id], S.applied[id], isReplay)
      S1 == [S EXCEPT !.subs[c].log = Append(@, ev)]
      kind == S.subs[c].kind
      once == ~isReplay /\ ~S.subs[c].fired
      newc == Cardinality(DOMAIN S.subs) + 1
  IN IF kind = "waiter" THEN waiterCallback(S1, c, ev, ~isReplay)
     ELSE IF kind = "mutator" /\ once
     THEN updateJobProgress([S1 EXCEPT !.subs[c].fired = TRUE], id, "packages", "processing")
     ELSE IF kind = "resubscriber" /\ once /\ ev.type \in {"complete", "error"}
     THEN subscribeProgress(
            NewCallback([S1 EXCEPT !.subs[c].fired = TRUE], newc, id, "passive"),
            id, newc, Cardinality(DOMAIN S.callbackSets) + 1)
     ELSE IF kind = "prober"
     THEN [S1 EXCEPT !.subs[c].outcome =
                       Some([kind |-> "probe", type |-> ev.type,
                             processingCount |-> Cardinality(processingJobs)])]
     ELSE S1

\* Mutant: no try/catch around the call, so the error of a callback ends the loop.
DeliverUncaught(S, setId, id, visited) ==
  LET rest == SelectSeq(S.callbackSets[setId], LAMBDA c : c \notin visited)
  IN IF rest = <<>> THEN S
     ELSE IF S.subs[Head(rest)].kind = "thrower" THEN Invoke(S, Head(rest), id, FALSE)
     ELSE DeliverUncaught(Invoke(S, Head(rest), id, FALSE), setId, id,
                          visited \cup {Head(rest)})

\* `for (const callback of callbacks)` over the live Set object setId: callbacks are
\* visited in insertion order, one added during the loop is visited too, one deleted
\* before its turn is not. Each call sits in a try/catch that logs the error of the
\* callback, so the loop goes on after a callback that throws.
Deliver(S, setId, id, visited) ==
  LET rest == SelectSeq(S.callbackSets[setId], LAMBDA c : c \notin visited)
  IN IF rest = <<>> THEN S
     ELSE Deliver(Invoke(S, Head(rest), id, FALSE), setId, id, visited \cup {Head(rest)})

notifyProgress(S, id) ==
  IF id \in DOMAIN S.progressCallbacks
  THEN Deliver(S, S.progressCallbacks[id], id, {})
  ELSE S

createJob(S, id, options) ==
  [S EXCEPT
     !.jobs = [i \in DOMAIN S.jobs \cup {id} |->
                 IF i = id
                 THEN [id |-> id,
                       status |-> "pending",
                       progress |->
                         [analysis |-> "pending",
                          packages |-> IF options.skipPackages THEN "skipped" ELSE "pending",
                          ads |-> IF options.skipAds THEN "skipped" ELSE "pending",
                          texts |-> IF options.skipTexts THEN "skipped" ELSE "pending"],
                       createdAt |-> now,
                       updatedAt |-> now,
                       completedAt |-> Unset,
                       options |-> options,
                       error |-> Unset,
                       result |-> Unset]
                 ELSE S.jobs[i]],
     !.applied = [i \in DOMAIN S.applied \cup {id} |->
                    IF i = id THEN 0 ELSE S.applied[i]]]

updateJobStatus(S, id, status) ==
  IF id \notin DOMAIN S.jobs THEN S
  ELSE notifyProgress(
         [S EXCEPT !.jobs[id].status = status,
                   !.jobs[id].updatedAt = now,
                   !.jobs[id].completedAt =
                      IF status \in {"completed", "failed"} THEN Some(now) ELSE @,
                   !.applied[id] = @ + 1], id)

updateJobProgress(S, id, step, stepStatus) ==
  IF id \notin DOMAIN S.jobs THEN S
  ELSE notifyProgress(
         [S EXCEPT !.jobs[id].progress[step] = stepStatus,
                   !.jobs[id].updatedAt = now,
                   !.applied[id] = @ + 1], id)

setJobResult(S, id, result) ==
  IF id \notin DOMAIN S.jobs THEN S
  ELSE [S EXCEPT !.jobs[id].result = Some(result),
                 !.jobs[id].updatedAt = now,
                 !.applied[id] = @ + 1]

setJobError(S, id, error) ==
  IF id \notin DOMAIN S.jobs THEN S
  ELSE notifyProgress(
         [S EXCEPT !.jobs[id].error = Some(error),
                   !.jobs[id].status = "failed",
                   !.jobs[id].updatedAt = now,
                   !.jobs[id].completedAt = Some(now),
                   !.applied[id] = @ + 1], id)

\* getJob: the job stored under id, or undefined.
getJob(S, id) == IF id \in DOMAIN S.jobs THEN Some(S.jobs[id]) ELSE Unset

\* What deleteJob returns: jobs.delete(id).
deleteJobReturns(S, id) == id \in DOMAIN S.jobs

\* Mutant: deleteJob drops the callbacks and keeps the record.
deleteJobKeepsRecord(S, id) ==
  IF id \in DOMAIN S.progressCallbacks
  THEN [S EXCEPT
          !.callbackSets[S.progressCallbacks[id]] = <<>>,
          !.progressCallbacks = Restrict(@, DOMAIN @ \ {id})]
  ELSE S

deleteJob(S, id) ==
  LET S1 == IF id \in DOMAIN S.progressCallbacks
            THEN [S EXCEPT
                    !.callbackSets[S.progressCallbacks[id]] = <<>>,
                    !.progressCallbacks = Restrict(@, DOMAIN @ \ {id})]
            ELSE S
  IN [S1 EXCEPT !.jobs = Restrict(@, DOMAIN @ \ {id})]

RECURSIVE cleanupLoopAnyStatus(_, _, _, _)
RECURSIVE cleanupLoop(_, _, _, _)
\* Mutant: the reaper deletes a job old enough whatever its status.
cleanupLoopAnyStatus(S, ids, maxAgeMs, count) ==
  IF ids = <<>> THEN [S |-> S, count |-> count]
  ELSE LET id == Head(ids)
           age == now - S.jobs[id].createdAt
       IN IF age > maxAgeMs
          THEN cleanupLoopAnyStatus(deleteJob(S, id), Tail(ids), maxAgeMs, count + 1)
          ELSE cleanupLoopAnyStatus(S, Tail(ids), maxAgeMs, count)

\* The loop of cleanupOldJobs over jobs.entries(), from the entries `ids` on.
cleanupLoop(S, ids, maxAgeMs, count) ==
  IF ids = <<>> THEN [S |-> S, count |-> count]
  ELSE LET id == Head(ids)
           age == now - S.jobs[id].createdAt
       IN IF age > maxAgeMs /\ S.jobs[id].status \in {"completed", "failed"}
          THEN cleanupLoop(deleteJob(S, id), Tail(ids), maxAgeMs, count + 1)
          ELSE cleanupLoop(S, Tail(ids), maxAgeMs, count)

\* The ids of the stored jobs in insertion order, which is the order of the ids.
entries(S) ==
  LET ids == DOMAIN S.jobs
  IN CHOOSE seq \in [1 .. Cardinality(ids) -> ids] :
       \A i, j \in 1 .. Cardinality(ids) : i < j => seq[i] < seq[j]

cleanupOldJobs(S, maxAgeMs) == cleanupLoop(S, entries(S), maxAgeMs, 0)

\* Mutant: the callback is registered after the first later mutation only, so it is
\* told nothing when it subscribes.
subscribeProgressSilent(S, jobId, c, newSet) ==
  LET setId == IF jobId \in DOMAIN S.progressCallbacks
               THEN S.progressCallbacks[jobId] ELSE newSet
      S1 == IF jobId \in DOMAIN S.progressCallbacks THEN S
            ELSE [S EXCEPT
                    !.callbackSets = [k \in DOMAIN @ \cup {newSet} |->
                                        IF k = newSet THEN <<>> ELSE @[k]],
                    !.progressCallbacks = [j \in DOMAIN @ \cup {jobId} |->
                                             IF j = jobId THEN newSet ELSE @[j]]]
  IN [S1 EXCEPT !.callbackSets[setId] = Append(@, c),
                !.subs[c].set = setId]

\* queue.ts subscribeProgress, called through the API wrapper: registers the closure c
\* and calls it with the current state of the job.
subscribeProgress(S, jobId, c, newSet) ==
  LET setId == IF jobId \in DOMAIN S.progressCallbacks
               THEN S.progressCallbacks[jobId] ELSE newSet
      S1 == IF jobId \in DOMAIN S.progressCallbacks THEN S
            ELSE [S EXCEPT
                    !.callbackSets = [k \in DOMAIN @ \cup {newSet} |->
                                        IF k = newSet THEN <<>> ELSE @[k]],
                    !.progressCallbacks = [j \in DOMAIN @ \cup {jobId} |->
                                             IF j = jobId THEN newSet ELSE @[j]]]
      S2 == [S1 EXCEPT !.callbackSets[setId] = Append(@, c),
                       !.subs[c].set = setId]
  IN IF jobId \in DOMAIN S2.jobs THEN Invoke(S2, c, jobId, TRUE) ELSE S2

estimateProcessingTime(options) ==
  10
  + (IF options.skipPackages THEN 0
     ELSE (IF options.hasPackageVariations /\ options.packageVariations # 0
           THEN options.packageVariations ELSE DefaultPackageVariations) * 15)
  + (IF options.skipAds THEN 0
     ELSE (IF options.hasAdPlatforms /\ Len(options.adPlatforms) # 0
           THEN Len(options.adPlatforms) ELSE Len(DefaultAdPlatforms)) * 10)
  + (IF options.skipTexts THEN 0 ELSE 10)

(***************************************************************************)
(* Input validation of startGeneration: the field tag of the error thrown, *)
(* or "ok".                                                                *)
(***************************************************************************)
ImageMagics == {"jpeg", "png", "webp", "none"}

\* Mutant: the image is not checked against the size limit.
validateImageBufferAnySize(image) ==
  IF ~image.isBuffer THEN "imageBuffer"
  ELSE IF image.length = 0 THEN "imageBuffer"
  ELSE IF image.magic \notin {"jpeg", "png", "webp"} THEN "imageBuffer"
  ELSE "ok"

validateImageBuffer(image) ==
  IF ~image.isBuffer THEN "imageBuffer"
  ELSE IF image.length = 0 THEN "imageBuffer"
  ELSE IF image.length > MaxImageSize THEN "imageBuffer"
  ELSE IF image.magic \notin {"jpeg", "png", "webp"} THEN "imageBuffer"
  ELSE "ok"

validateGenerateOptions(options) ==
  IF options.brandNameLength > MaxBrandNameLength THEN "brandName"
  ELSE IF options.productNameLength > MaxProductNameLength THEN "productName"
  ELSE IF options.hasPackageVariations
          /\ (options.packageVariations < MinPackageVariations
              \/ options.packageVariations > MaxPackageVariations)
       THEN "packageVariations"
  ELSE "ok"

validateApiKeys(cfg, options) ==
  IF ~cfg.claudeApiKey THEN "claudeApiKey"
  ELSE IF (~options.skipPackages \/ ~options.skipAds) /\ ~cfg.openaiApiKey
       THEN "openaiApiKey"
  ELSE "ok"

validate(cfg, image, options) ==
  IF validateImageBuffer(image) # "ok" THEN validateImageBuffer(image)
  ELSE IF validateGenerateOptions(options) # "ok" THEN validateGenerateOptions(options)
  ELSE validateApiKeys(cfg, options)

\* Mutant: the admission check compares with > instead of >=.
maxConcurrentOffByOne(cfg) ==
  (IF cfg.maxConcurrentJobs = 0 THEN DefaultMaxConcurrentJobs ELSE cfg.maxConcurrentJobs) + 1

\* startGeneration: this.config.maxConcurrentJobs || 5
maxConcurrent(cfg) ==
  IF cfg.maxConcurrentJobs = 0 THEN DefaultMaxConcurrentJobs ELSE cfg.maxConcurrentJobs

getProcessingCount == Cardinality(processingJobs)

\* The constructor: this.config.cleanupIntervalMs || 600000, where the config holds
\* the default for a value not given.
cleanupInterval(cfg) ==
  IF cfg.cleanupIntervalMs = 0 THEN DefaultCleanupIntervalMs ELSE cfg.cleanupIntervalMs

(***************************************************************************)
(* The package and ad adapters. The outcome of the external calls is an    *)
(* input: which image-synthesis calls fail, whether the module loads, the  *)
(* template file reads and the prompts validate.                           *)
(***************************************************************************)
ImageFailures == {"none", "first", "all"}

\* Does the i-th image-synthesis call of a stage fail?
ImageCallFails(failing, i) ==
  \/ failing = "all"
  \/ failing = "first" /\ i = 1

Includes(seq, x) == \E i \in 1..Len(seq) : seq[i] = x

RECURSIVE Unique(_)
\* [...new Set(seq)]: the first occurrence of each element, in order.
Unique(seq) ==
  IF seq = <<>> THEN <<>>
  ELSE LET init == Unique(SubSeq(seq, 1, Len(seq) - 1))
           last == seq[Len(seq)]
       IN IF Includes(init, last) THEN init ELSE Append(init, last)

\* The categories of the source are "cosmetics" = '化粧品', "electronics" = '電子機器',
\* "food" = '食品', "beverage" = '飲料'.
autoSelectVariations(analysis, count) ==
  LET byCategory ==
        IF analysis.category \in {"cosmetics", "electronics"}
        THEN <<"premium", "minimalist">>
        ELSE IF analysis.category \in {"food", "beverage"}
        THEN <<"vibrant", "minimalist">>
        ELSE <<"minimalist">>
      byTexture ==
        IF analysis.texture \in {"metallic", "glossy"}
        THEN IF Includes(byCategory, "premium") THEN byCategory
             ELSE Append(byCategory, "premium")
        ELSE IF analysis.texture = "matte"
        THEN IF Includes(byCategory, "minimalist") THEN byCategory
             ELSE Append(byCategory, "minimalist")
        ELSE byCategory
      recommendations ==
        IF Includes(byTexture, "vibrant") THEN byTexture
        ELSE Append(byTexture, "vibrant")
      unique == Unique(recommendations)
  IN SubSeq(unique, 1, Min(count, Len(unique)))

RECURSIVE generateMultipleImages(_, _, _, _, _)
\* The designs of the fulfilled calls, chunk by chunk of `concurrency` prompts,
\* from prompt i on.
generateMultipleImages(prompts, failing, concurrency, i, designs) ==
  IF i > Len(prompts) THEN designs
  ELSE LET chunk == i .. Min(i + concurrency - 1, Len(prompts))
           fulfilled == SelectSeq([k \in 1..Cardinality(chunk) |-> i + k - 1],
                                  LAMBDA k : ~ImageCallFails(failing, k))
       IN generateMultipleImages(prompts, failing, concurrency, i + concurrency,
            designs \o [k \in 1..Len(fulfilled) |-> prompts[fulfilled[k]]])

\* What a call returns: a value, or an error thrown.
Returned(v) == [threw |-> FALSE, value |-> v]

Threw(message) == [threw |-> TRUE, message |-> message]

\* What the image API answers to a request: an image, an HTTP error status, or no
\* answer at all (the connection fails).
Responses == {"ok", "429", "500", "network", "401", "400"}

\* template-engine.ts:326-411. `script` holds the answers the API gives to the
\* successive requests for one prompt; `rest` is what is left of it when the call
\* returns or throws, so Len(script) - Len(rest) requests were sent.
generateWithOpenAI(script) ==
  LET response == Head(script)
      rest == Tail(script)
  IN IF response = "ok" THEN [threw |-> FALSE, value |-> "design", rest |-> rest]
     ELSE IF response = "network"
     THEN [threw |-> TRUE, message |-> "NETWORK_ERROR", rest |-> rest]
     ELSE [threw |-> TRUE, message |-> "API_ERROR", rest |-> rest]

\* The provider of the pipeline is 'openai'.
generateImage(script) == generateWithOpenAI(script)

generatePackageDesigns(analysis, variationCount, env) ==
  IF variationCount < MinPackageVariations \/ variationCount > MaxPackageVariations
  THEN Threw("INVALID_INPUT")
  ELSE IF ~env.templateLoads THEN Threw("TEMPLATE_NOT_FOUND")
  ELSE LET selectedVariations == autoSelectVariations(analysis, variationCount)
           prompts == SubSeq(selectedVariations, 1,
                             Min(variationCount, Len(selectedVariations)))
       IN IF ~env.promptsValid THEN Threw("INVALID_INPUT")
          ELSE Returned(generateMultipleImages(prompts, env.failing,
                                               ImageConcurrency, 1, <<>>))

PackageVariationsOf(options) ==
  IF options.hasPackageVariations /\ options.packageVariations # 0
  THEN options.packageVariations ELSE DefaultPackageVariations

runPackageGeneration(analysis, options, cfg, env) ==
  IF ~env.moduleLoads THEN Threw("IMPORT_FAILED")
  ELSE IF ~cfg.openaiApiKey
  THEN Threw("OpenAI API key is required for package generation")
  ELSE generatePackageDesigns(analysis, PackageVariationsOf(options), env)

RECURSIVE generateBatch(_, _, _, _)
\* One generateAd per platform, in order; a failed one is recorded, not thrown.
generateBatch(platforms, failing, i, results) ==
  IF i > Len(platforms) THEN results
  ELSE generateBatch(platforms, failing, i + 1,
         IF ImageCallFails(failing, i) THEN results
         ELSE Append(results, platforms[i]))

PlatformsOf(options) ==
  IF options.hasAdPlatforms THEN options.adPlatforms ELSE DefaultAdPlatforms

runAdGeneration(analysis, options, cfg, env) ==
  IF ~env.moduleLoads THEN Threw("IMPORT_FAILED")
  ELSE IF ~cfg.openaiApiKey
  THEN Threw("OpenAI API key is required for ad generation")
  ELSE Returned(generateBatch(PlatformsOf(options), env.failing, 1, <<>>))

\* generateProductTexts: description, catchcopy and SEO under one Promise.all.
runTextGeneration(analysis, options, cfg, env) ==
  IF ~env.moduleLoads THEN Threw("IMPORT_FAILED")
  ELSE IF ~cfg.claudeApiKey
  THEN Threw("Claude API key is required for text generation")
  ELSE IF env.failed # {} THEN Threw("TextGenerationError")
  ELSE Returned("texts")

runImageAnalysis(cfg, env) ==
  IF ~env.moduleLoads THEN Threw("IMPORT_FAILED")
  ELSE IF ~cfg.claudeApiKey
  THEN Threw("Claude API key is required for image analysis")
  ELSE IF env.failed THEN Threw("ANALYSIS_FAILED")
  ELSE Returned(env.analysis)

(***************************************************************************)
(* processJob. A run is at one of its awaits (pc) and owns the local       *)
(* `result`; R is the pair of the store and the run, which the synchronous *)
(* code between two awaits transforms.                                     *)
(***************************************************************************)
EmptyResult ==
  [analysis |-> Unset, packages |-> Unset, ads |-> Unset, texts |-> Unset,
   downloadUrl |-> Unset]

\* Lines 102-105 and the finally block: store the result, complete the job.
finishJob(R, id) ==
  LET result == [R.run.result EXCEPT !.downloadUrl = Some(<<"/api/v1/download/", id>>)]
  IN [S |-> updateJobStatus(setJobResult(R.S, id, result), id, "completed"),
      run |-> [R.run EXCEPT !.pc = "done", !.result = result]]

\* Lines 107-112: the catch block and the finally block.
failJob(R, id, errorMessage) ==
  [S |-> setJobError(R.S, id, errorMessage),
   run |-> [R.run EXCEPT !.pc = "done"]]

\* Mutant: the texts stage is never run.
startTextsNever(R, id) == finishJob(R, id)

\* Lines 85-100, up to the await.
startTexts(R, id) ==
  IF ~R.run.options.skipTexts
  THEN [S |-> updateJobProgress(R.S, id, "texts", "processing"),
        run |-> [R.run EXCEPT !.pc = "texts"]]
  ELSE finishJob(R, id)

\* Mutant: the ads stage runs whatever skipAds says.
startAdsAlways(R, id) ==
  [S |-> updateJobProgress(R.S, id, "ads", "processing"),
   run |-> [R.run EXCEPT !.pc = "ads"]]

\* Lines 68-83, up to the await.
startAds(R, id) ==
  IF ~R.run.options.skipAds
  THEN [S |-> updateJobProgress(R.S, id, "ads", "processing"),
        run |-> [R.run EXCEPT !.pc = "ads"]]
  ELSE startTexts(R, id)

\* Lines 51-66, up to the await.
startPackages(R, id) ==
  IF ~R.run.options.skipPackages
  THEN [S |-> updateJobProgress(R.S, id, "packages", "processing"),
        run |-> [R.run EXCEPT !.pc = "packages"]]
  ELSE startAds(R, id)

\* Mutant: the text stage is started together with the analysis.
startJobTextsAtOnce(S, id, options) ==
  [S |-> updateJobProgress(
           updateJobProgress(updateJobStatus(S, id, "processing"),
                             id, "analysis", "processing"),
           id, "texts", "processing"),
   run |-> [pc |-> "analysis", options |-> options, result |-> EmptyResult]]

\* Lines 29-44, up to the first await.
startJob(S, id, options) ==
  [S |-> updateJobProgress(updateJobStatus(S, id, "processing"),
                           id, "analysis", "processing"),
   run |-> [pc |-> "analysis", options |-> options, result |-> EmptyResult]]

\* Mutant: the catch block of the analysis does not rethrow.
afterAnalysisSwallowing(R, id, outcome) ==
  IF outcome.threw
  THEN startPackages([R EXCEPT !.S = updateJobProgress(@, id, "analysis", "failed")], id)
  ELSE startPackages(
         [S |-> updateJobProgress(R.S, id, "analysis", "done"),
          run |-> [R.run EXCEPT !.result.analysis = Some(outcome.value)]], id)

\* Lines 44-49, then on to the next stage.
afterAnalysis(R, id, outcome) ==
  IF outcome.threw
  THEN failJob([R EXCEPT !.S = updateJobProgress(@, id, "analysis", "failed")],
               id, <<"analysis failed", outcome.message>>)
  ELSE startPackages(
         [S |-> updateJobProgress(R.S, id, "analysis", "done"),
          run |-> [R.run EXCEPT !.result.analysis = Some(outcome.value)]], id)

\* Mutant: a failure of the package stage fails the job.
afterPackagesFatal(R, id, outcome) ==
  IF outcome.threw
  THEN failJob([R EXCEPT !.S = updateJobProgress(@, id, "packages", "failed")],
               id, <<"package generation failed", outcome.message>>)
  ELSE startAds(
         [S |-> updateJobProgress(R.S, id, "packages", "done"),
          run |-> [R.run EXCEPT !.result.packages = Some(outcome.value)]], id)

\* Lines 55-65, then on to the next stage.
afterPackages(R, id, outcome) ==
  IF outcome.threw
  THEN startAds([R EXCEPT !.S = updateJobProgress(@, id, "packages", "failed")], id)
  ELSE startAds(
         [S |-> updateJobProgress(R.S, id, "packages", "done"),
          run |-> [R.run EXCEPT !.result.packages = Some(outcome.value)]], id)

\* Lines 72-82, then on to the next stage.
afterAds(R, id, outcome) ==
  IF outcome.threw
  THEN startTexts([R EXCEPT !.S = updateJobProgress(@, id, "ads", "failed")], id)
  ELSE startTexts(
         [S |-> updateJobProgress(R.S, id, "ads", "done"),
          run |-> [R.run EXCEPT !.result.ads = Some(outcome.value)]], id)

\* Lines 89-105.
afterTexts(R, id, outcome) ==
  IF outcome.threw
  THEN finishJob([R EXCEPT !.S = updateJobProgress(@, id, "texts", "failed")], id)
  ELSE finishJob(
         [S |-> updateJobProgress(R.S, id, "texts", "done"),
          run |-> [R.run EXCEPT !.result.texts = Some(outcome.value)]], id)

\* Mutant: processJob never adds the job to processingJobs.
CommitWithoutTracking(R, id) ==
  /\ jobs' = R.S.jobs
  /\ progressCallbacks' = R.S.progressCallbacks
  /\ callbackSets' = R.S.callbackSets
  /\ subs' = R.S.subs
  /\ applied' = R.S.applied
  /\ pipeline' = [i \in DOMAIN pipeline \cup {id} |-> IF i = id THEN R.run ELSE pipeline[i]]
  /\ processingJobs' = processingJobs \ {id}

\* The store and the run after a synchronous stretch of processJob(id) become the state.
Commit(R, id) ==
  /\ jobs' = R.S.jobs
  /\ progressCallbacks' = R.S.progressCallbacks
  /\ callbackSets' = R.S.callbackSets
  /\ subs' = R.S.subs
  /\ applied' = R.S.applied
  /\ pipeline' = [i \in DOMAIN pipeline \cup {id} |-> IF i = id THEN R.run ELSE pipeline[i]]
  /\ processingJobs' = IF R.run.pc = "done" THEN processingJobs \ {id}
                       ELSE processingJobs \cup {id}

CommitStore(S) ==
  /\ jobs' = S.jobs
  /\ progressCallbacks' = S.progressCallbacks
  /\ callbackSets' = S.callbackSets
  /\ subs' = S.subs
  /\ applied' = S.applied

Awaiting(id, pc) == id \in DOMAIN pipeline /\ pipeline[id].pc = pc

Run(id) == [S |-> Store, run |-> pipeline[id]]

(***************************************************************************)
(* Actions.                                                                *)
(***************************************************************************)
\* ProductGenerationAPI.startGeneration, with processJob up to its first await.
StartGeneration(image, options) ==
  /\ LET field == validate(config, image, options)
         id == nextJobId
     IN IF field # "ok"
        THEN /\ lastResponse' = [kind |-> "error", field |-> field]
             /\ UNCHANGED <<config, jobs, progressCallbacks, callbackSets, subs,
                            processingJobs, pipeline, applied, nextJobId, now>>
        ELSE IF getProcessingCount >= maxConcurrent(config)
        THEN /\ lastResponse' = [kind |-> "error", field |-> "concurrentJobs",
                                 current |-> getProcessingCount,
                                 max |-> maxConcurrent(config)]
             /\ UNCHANGED <<config, jobs, progressCallbacks, callbackSets, subs,
                            processingJobs, pipeline, applied, nextJobId, now>>
        ELSE /\ Commit(startJob(createJob(Store, id, options), id, options), id)
             /\ nextJobId' = nextJobId + 1
             /\ lastResponse' = [kind |-> "ok", jobId |-> id, status |-> jobs'[id].status,
                                 estimatedTime |-> estimateProcessingTime(options)]
             /\ UNCHANGED <<config, now>>

\* runImageAnalysis settles: processJob resumes after its first await.
AnalysisSettles(id, env) ==
  /\ Awaiting(id, "analysis")
  /\ Commit(afterAnalysis(Run(id), id, runImageAnalysis(config, env)), id)
  /\ UNCHANGED <<config, nextJobId, lastResponse, now>>

PackagesSettle(id, env) ==
  /\ Awaiting(id, "packages")
  /\ Commit(afterPackages(Run(id), id,
              runPackageGeneration(pipeline[id].result.analysis.val,
                                   pipeline[id].options, config, env)), id)
  /\ UNCHANGED <<config, nextJobId, lastResponse, now>>

AdsSettle(id, env) ==
  /\ Awaiting(id, "ads")
  /\ Commit(afterAds(Run(id), id,
              runAdGeneration(pipeline[id].result.analysis.val,
                              pipeline[id].options, config, env)), id)
  /\ UNCHANGED <<config, nextJobId, lastResponse, now>>

TextsSettle(id, env) ==
  /\ Awaiting(id, "texts")
  /\ Commit(afterTexts(Run(id), id,
              runTextGeneration(pipeline[id].result.analysis.val,
                                pipeline[id].options, config, env)), id)
  /\ UNCHANGED <<config, nextJobId, lastResponse, now>>

\* ProductGenerationAPI.deleteJob.
DeleteJob(id) ==
  /\ CommitStore(deleteJob(Store, id))
  /\ UNCHANGED <<config, processingJobs, pipeline, nextJobId, lastResponse, now>>

\* ProductGenerationAPI.subscribeProgress with a fresh callback.
Subscribe(jobId) ==
  /\ LET c == Cardinality(DOMAIN subs) + 1
     IN CommitStore(subscribeProgress(NewCallback(Store, c, jobId, "passive"), jobId, c,
                                      Cardinality(DOMAIN callbackSets) + 1))
  /\ UNCHANGED <<config, processingJobs, pipeline, nextJobId, lastResponse, now>>

\* ProductGenerationAPI.subscribeProgress with a callback that calls back into the
\* store.
SubscribeReentrant(jobId, kind) ==
  /\ LET c == Cardinality(DOMAIN subs) + 1
     IN CommitStore(subscribeProgress(NewCallback(Store, c, jobId, kind), jobId, c,
                                      Cardinality(DOMAIN callbackSets) + 1))
  /\ UNCHANGED <<config, processingJobs, pipeline, nextJobId, lastResponse, now>>

\* ProductGenerationAPI.waitForCompletion: the promise executor, which arms the timer
\* and subscribes the callback.
WaitForCompletion(jobId) ==
  /\ LET c == Cardinality(DOMAIN subs) + 1
     IN CommitStore(subscribeProgress(NewCallback(Store, c, jobId, "waiter"), jobId, c,
                                      Cardinality(DOMAIN callbackSets) + 1))
  /\ UNCHANGED <<config, processingJobs, pipeline, nextJobId, lastResponse, now>>

\* The timer of waitForCompletion fires (api/index.ts:315-318).
WaitTimesOut(c) ==
  /\ c \in DOMAIN subs
  /\ subs[c].timer
  /\ CommitStore(Settle([unsubscribe(Store, c) EXCEPT !.subs[c].timer = FALSE], c,
                        "rejected", [kind |-> "timeout", message |-> Unset]))
  /\ UNCHANGED <<config, processingJobs, pipeline, nextJobId, lastResponse, now>>

\* A caller invokes the handle subscribeProgress returned for callback c.
Unsubscribe(c) ==
  /\ c \in DOMAIN subs
  /\ subs[c].kind # "waiter"
  /\ ~(subs[c].kind = "thrower" /\ subs[c].log # <<>> /\ subs[c].log[1].replay)
  /\ CommitStore(unsubscribe(Store, c))
  /\ UNCHANGED <<config, processingJobs, pipeline, nextJobId, lastResponse, now>>

\* A value handed to a caller that is the stored job object itself, or a part of it:
\* what the caller reads through it and writes through it is the record of the store.
Ref(id) == [ref |-> id]

\* queue getAllJobs: a new array of the stored job objects, in insertion order.
getAllJobs(S) ==
  LET ids == DOMAIN S.jobs
      order == CHOOSE seq \in [1 .. Cardinality(ids) -> ids] :
                 \A i, j \in 1 .. Cardinality(ids) : i < j => seq[i] < seq[j]
  IN [i \in 1 .. Cardinality(ids) |-> Ref(order[i])]

\* api/index.ts:263-275: a new object; status, error and downloadUrl are copied values,
\* progress and result are the objects of the job.
getStatus(S, id) ==
  IF getJob(S, id) = Unset THEN [kind |-> "null"]
  ELSE LET job == S.jobs[id]
       IN [kind |-> "status",
           jobId |-> job.id,
           status |-> job.status,
           progress |-> Ref(id),
           error |-> job.error,
           downloadUrl |-> IF job.result.set THEN job.result.val.downloadUrl ELSE Unset,
           result |-> IF job.status = "completed" THEN Some(Ref(id)) ELSE Unset]

\* api/index.ts:354-364. The config holds a number for maxConcurrentJobs, so `?? 5`
\* leaves it as it is.
getSystemStatus ==
  [processingCount |-> getProcessingCount,
   maxConcurrent |-> config.maxConcurrentJobs,
   totalJobs |-> Len(getAllJobs(Store))]

\* A caller of the queue module calls getJob.
GetJob(id) ==
  /\ lastResponse' = IF getJob(Store, id) = Unset THEN [kind |-> "undefined"]
                     ELSE [kind |-> "job", job |-> Ref(id)]
  /\ UNCHANGED <<config, jobs, progressCallbacks, callbackSets, subs, processingJobs,
                 pipeline, applied, nextJobId, now>>

\* ProductGenerationAPI.getStatus.
GetStatus(id) ==
  /\ lastResponse' = getStatus(Store, id)
  /\ UNCHANGED <<config, jobs, progressCallbacks, callbackSets, subs, processingJobs,
                 pipeline, applied, nextJobId, now>>

\* ProductGenerationAPI.listJobs.
ListJobs ==
  /\ lastResponse' = [kind |-> "list", list |-> getAllJobs(Store)]
  /\ UNCHANGED <<config, jobs, progressCallbacks, callbackSets, subs, processingJobs,
                 pipeline, applied, nextJobId, now>>

\* The job objects the value held by the caller gives access to.
Reachable(resp) ==
  IF resp.kind = "job" THEN {resp.job.ref}
  ELSE IF resp.kind = "status" THEN {resp.progress.ref}
  ELSE IF resp.kind = "list" THEN {resp.list[i].ref : i \in 1 .. Len(resp.list)}
  ELSE {}

\* The caller assigns to the status field of the value it holds: of the job object
\* (`job.status = ...`), or of the object getStatus built (`response.status = ...`).
CallerWritesStatus(status) ==
  /\ lastResponse.kind \in {"job", "status", "list"}
  /\ IF lastResponse.kind = "status"
     THEN /\ lastResponse' = [lastResponse EXCEPT !.status = status]
          /\ UNCHANGED jobs
     ELSE /\ \E id \in Reachable(lastResponse) : jobs' = [jobs EXCEPT ![id].status = status]
          /\ UNCHANGED lastResponse
  /\ UNCHANGED <<config, progressCallbacks, callbackSets, subs, processingJobs,
                 pipeline, applied, nextJobId, now>>

\* The caller assigns to a step of the progress object of the value it holds
\* (`value.progress[step] = ...`).
CallerWritesProgress(step, stepStatus) ==
  /\ \E id \in Reachable(lastResponse) :
       jobs' = [jobs EXCEPT ![id].progress[step] = stepStatus]
  /\ UNCHANGED <<config, progressCallbacks, callbackSets, subs, processingJobs,
                 pipeline, applied, nextJobId, lastResponse, now>>

\* A caller of the queue module calls cleanupOldJobs(maxAgeMs).
CleanupOldJobs(maxAgeMs) ==
  /\ CommitStore(cleanupOldJobs(Store, maxAgeMs).S)
  /\ lastResponse' = [kind |-> "cleaned", count |-> cleanupOldJobs(Store, maxAgeMs).count]
  /\ UNCHANGED <<config, processingJobs, pipeline, nextJobId, now>>

\* The interval timer the constructor sets fires: cleanupOldJobs() with its default.
ReaperTick ==
  /\ cleanupInterval(config) > 0
  /\ now > 0
  /\ now % cleanupInterval(config) = 0
  /\ CommitStore(cleanupOldJobs(Store, DefaultMaxAgeMs).S)
  /\ UNCHANGED <<config, processingJobs, pipeline, nextJobId, lastResponse, now>>

\* Time passes, half the default maximal age at a time.
TickMs == DefaultMaxAgeMs \div 2

Tick ==
  /\ now < MaxTicks * TickMs
  /\ now' = now + TickMs
  /\ UNCHANGED <<config, jobs, progressCallbacks, callbackSets, subs, processingJobs,
                 pipeline, applied, nextJobId, lastResponse>>

\* A caller of the queue module calls one of its exported mutators directly.
UpdateJobStatus(id, status) ==
  /\ CommitStore(updateJobStatus(Store, id, status))
  /\ UNCHANGED <<config, processingJobs, pipeline, nextJobId, lastResponse, now>>

UpdateJobProgress(id, step, stepStatus) ==
  /\ CommitStore(updateJobProgress(Store, id, step, stepStatus))
  /\ UNCHANGED <<config, processingJobs, pipeline, nextJobId, lastResponse, now>>

SetJobResult(id, result) ==
  /\ CommitStore(setJobResult(Store, id, result))
  /\ UNCHANGED <<config, processingJobs, pipeline, nextJobId, lastResponse, now>>

SetJobError(id, error) ==
  /\ CommitStore(setJobError(Store, id, error))
  /\ UNCHANGED <<config, processingJobs, pipeline, nextJobId, lastResponse, now>>

(***************************************************************************)
(* The inputs the actions draw from.                                       *)
(***************************************************************************)
Configs ==
  [maxConcurrentJobs : {0, 1, 2}, claudeApiKey : BOOLEAN, openaiApiKey : BOOLEAN]

ValidImages ==
  {[isBuffer |-> TRUE, length |-> MaxImageSize, magic |-> "jpeg"]}

InvalidImages ==
  {[isBuffer |-> TRUE, length |-> MaxImageSize + 1, magic |-> "jpeg"]}

OptionsWith(skips, brandNameLengths) ==
  [skipPackages : skips, skipAds : skips, skipTexts : skips,
   brandNameLength : brandNameLengths, productNameLength : {0},
   hasPackageVariations : {FALSE}, packageVariations : {0},
   hasAdPlatforms : {FALSE}, adPlatforms : {<<>>}]

\* Options that pass validateGenerateOptions: every combination of the skip flags.
ValidOptions == OptionsWith(BOOLEAN, {0})

Analyses ==
  {[category |-> "food", texture |-> "matte"],
   [category |-> "cosmetics", texture |-> "glossy"]}

AnalysisEnvs ==
  [moduleLoads : {TRUE}, failed : {FALSE}, analysis : Analyses]
  \cup [moduleLoads : BOOLEAN, failed : {TRUE}, analysis : {CHOOSE a \in Analyses : TRUE}]

PackageEnvs ==
  [moduleLoads : BOOLEAN, templateLoads : BOOLEAN, promptsValid : BOOLEAN,
   failing : ImageFailures]

AdEnvs == [moduleLoads : BOOLEAN, failing : ImageFailures]

TextEnvs ==
  [moduleLoads : BOOLEAN, failed : SUBSET {"description", "catchcopy", "seo"}]

\* The job ids handed out so far.
JobIds == 1 .. (nextJobId - 1)

InitWith(cfg) ==
  /\ config = cfg
  /\ jobs = <<>>
  /\ progressCallbacks = <<>>
  /\ callbackSets = <<>>
  /\ subs = <<>>
  /\ processingJobs = {}
  /\ pipeline = <<>>
  /\ applied = <<>>
  /\ nextJobId = 1
  /\ lastResponse = [kind |-> "none"]
  /\ now = 0

\* The external calls of the running pipelines settle.
PipelineStep ==
  \/ \E id \in JobIds, env \in AnalysisEnvs : AnalysisSettles(id, env)
  \/ \E id \in JobIds, env \in PackageEnvs : PackagesSettle(id, env)
  \/ \E id \in JobIds, env \in AdEnvs : AdsSettle(id, env)
  \/ \E id \in JobIds, env \in TextEnvs : TextsSettle(id, env)

\* startGeneration calls, of which at most `limit` are admitted; a call that is
\* rejected is always possible.
Calls(images, options, limit) ==
  /\ \E image \in images, opts \in options : StartGeneration(image, opts)
  /\ nextJobId' <= limit + 1

(***************************************************************************)
(* Spec: the pipeline of a job, with every outcome of its external calls.  *)
(***************************************************************************)
Init == \E cfg \in Configs : InitWith(cfg)

Next ==
  \/ Calls(ValidImages, ValidOptions, MaxRuns)
  \/ PipelineStep

Spec == Init /\ [][Next]_vars

(***************************************************************************)
(* SpecAdmission: many callers submit valid and invalid requests; the jobs *)
(* admitted run texts at most.                                             *)
(***************************************************************************)
AdmissionOptions ==
  {o \in OptionsWith(BOOLEAN, {0, MaxBrandNameLength + 1}) :
     o.skipPackages /\ o.skipAds}

NextAdmission ==
  \/ Calls(ValidImages \cup InvalidImages, AdmissionOptions, MaxJobs)
  \/ \E id \in JobIds, env \in AnalysisEnvs : AnalysisSettles(id, env)
  \/ \E id \in JobIds, env \in TextEnvs : TextsSettle(id, env)

SpecAdmission == Init /\ [][NextAdmission]_vars

(***************************************************************************)
(* SpecBus: one job that runs analysis and texts at most, observed by      *)
(* subscribers that come, go (their handles may be invoked again) and see  *)
(* the job deleted.                                                        *)
(***************************************************************************)
ShortOptions == {o \in ValidOptions : o.skipPackages /\ o.skipAds}

ShortConfigs == {cfg \in Configs : cfg.maxConcurrentJobs = 1 /\ cfg.openaiApiKey}

InitShort == \E cfg \in ShortConfigs : InitWith(cfg)

NextBus ==
  \/ Calls(ValidImages, ShortOptions, MaxRuns)
  \/ \E id \in JobIds, env \in AnalysisEnvs : AnalysisSettles(id, env)
  \/ \E id \in JobIds, env \in TextEnvs : TextsSettle(id, env)
  \/ \E id \in JobIds : Subscribe(id) /\ Cardinality(DOMAIN subs') <= MaxSubs
  \/ \E c \in DOMAIN subs : Unsubscribe(c)
  \/ \E id \in JobIds : DeleteJob(id)

SpecBus == InitShort /\ [][NextBus]_vars

(***************************************************************************)
(* SpecStore: one job that runs analysis and texts at most, while callers  *)
(* of the queue module apply its exported mutators to the job themselves.  *)
(***************************************************************************)
Mutated(id) == applied'[id] <= MaxApplied

NextStore ==
  \/ Calls(ValidImages, ShortOptions, MaxRuns)
  \/ \E id \in JobIds, env \in AnalysisEnvs : AnalysisSettles(id, env)
  \/ \E id \in JobIds, env \in TextEnvs : TextsSettle(id, env)
  \/ \E id \in JobIds, status \in JobStatuses :
       UpdateJobStatus(id, status) /\ Mutated(id)
  \/ \E id \in JobIds, step \in {"analysis", "texts"}, stepStatus \in {"processing", "done"} :
       UpdateJobProgress(id, step, stepStatus) /\ Mutated(id)
  \/ \E id \in JobIds : SetJobResult(id, EmptyResult) /\ Mutated(id)
  \/ \E id \in JobIds : SetJobError(id, <<"cancelled">>) /\ Mutated(id)

SpecStore == InitShort /\ [][NextStore]_vars

(***************************************************************************)
(* SpecObserved: SpecStore with subscribers, and with jobs being deleted.  *)
(***************************************************************************)
ObservedMutated(id) == id \in DOMAIN applied' => applied'[id] <= MaxObserved

NextObserved ==
  \/ Calls(ValidImages, ShortOptions, MaxRuns)
  \/ \E id \in JobIds, env \in AnalysisEnvs : AnalysisSettles(id, env)
  \/ \E id \in JobIds, env \in TextEnvs : TextsSettle(id, env)
  \/ \E id \in JobIds, status \in {"processing", "completed"} :
       UpdateJobStatus(id, status) /\ ObservedMutated(id)
  \/ \E id \in JobIds : UpdateJobProgress(id, "analysis", "processing") /\ ObservedMutated(id)
  \/ \E id \in JobIds : SetJobResult(id, EmptyResult) /\ ObservedMutated(id)
  \/ \E id \in JobIds : SetJobError(id, <<"cancelled">>) /\ ObservedMutated(id)
  \/ \E id \in JobIds : Subscribe(id) /\ Cardinality(DOMAIN subs') <= MaxSubs
  \/ \E id \in JobIds : DeleteJob(id)

SpecObserved == InitShort /\ [][NextObserved]_vars

(***************************************************************************)
(* SpecReentrant: one job that runs analysis and texts at most, observed   *)
(* by callbacks some of which call back into the store while they run.     *)
(***************************************************************************)
ReentrantKinds == {"mutator", "resubscriber"}

NextReentrant ==
  \/ Calls(ValidImages, ShortOptions, MaxRuns)
  \/ \E id \in JobIds, env \in AnalysisEnvs : AnalysisSettles(id, env)
  \/ \E id \in JobIds, env \in TextEnvs : TextsSettle(id, env)
  \/ \E id \in JobIds : Subscribe(id) /\ Cardinality(DOMAIN subs') <= MaxSubs
  \/ \E id \in JobIds, kind \in ReentrantKinds :
       SubscribeReentrant(id, kind) /\ Cardinality(DOMAIN subs') <= MaxSubs
  \/ \E c \in DOMAIN subs : Unsubscribe(c)

SpecReentrant == InitShort /\ [][NextReentrant]_vars

(***************************************************************************)
(* SpecWait: one job that runs analysis and texts at most, awaited by      *)
(* waitForCompletion calls made before, while and after it runs, and       *)
(* possibly deleted.                                                       *)
(***************************************************************************)
NextWait ==
  \/ Calls(ValidImages, ShortOptions, MaxRuns)
  \/ \E id \in JobIds, env \in AnalysisEnvs : AnalysisSettles(id, env)
  \/ \E id \in JobIds, env \in TextEnvs : TextsSettle(id, env)
  \/ \E id \in JobIds : WaitForCompletion(id) /\ Cardinality(DOMAIN subs') <= MaxSubs
  \/ \E c \in DOMAIN subs : WaitTimesOut(c)
  \/ \E id \in JobIds : DeleteJob(id)

SpecWait == InitShort /\ [][NextWait]_vars

(***************************************************************************)
(* SpecRetry: the pipeline of Spec, where the image API answers the        *)
(* requests for the first package design from a script of responses.       *)
(***************************************************************************)
Scripts == [1 .. MaxResponses -> Responses]

\* The package stage when the request for its first design is answered from `script`
\* and the requests for the other designs succeed.
ScriptedEnv(script) ==
  [moduleLoads |-> TRUE, templateLoads |-> TRUE, promptsValid |-> TRUE,
   failing |-> IF generateImage(script).threw THEN "first" ELSE "none"]

NextRetry ==
  \/ Calls(ValidImages, ValidOptions, MaxRuns)
  \/ \E id \in JobIds, env \in AnalysisEnvs : AnalysisSettles(id, env)
  \/ \E id \in JobIds, script \in Scripts : PackagesSettle(id, ScriptedEnv(script))
  \/ \E id \in JobIds, env \in AdEnvs : AdsSettle(id, env)
  \/ \E id \in JobIds, env \in TextEnvs : TextsSettle(id, env)

SpecRetry == Init /\ [][NextRetry]_vars

(***************************************************************************)
(* SpecLive: Spec with the progress the code guarantees. A call that runs  *)
(* under a timer that aborts it settles: the image requests of the package *)
(* stage pass the signal of their AbortController to fetch                 *)
(* (template-engine.ts:336-353); so does the analysis, taken at the word   *)
(* of its contract. The calls of the ad stage take no signal               *)
(* (ad-generator/index.ts:53-73) and the text generators arm a timer whose *)
(* signal they never pass on (description-writer.ts:43-56), so nothing     *)
(* makes those calls settle.                                               *)
(***************************************************************************)
AnalysisDeadline == \E id \in 1 .. MaxRuns, env \in AnalysisEnvs : AnalysisSettles(id, env)

PackagesDeadline == \E id \in 1 .. MaxRuns, env \in PackageEnvs : PackagesSettle(id, env)

SpecLive == Init /\ [][Next]_vars /\ WF_vars(AnalysisDeadline) /\ WF_vars(PackagesDeadline)

(***************************************************************************)
(* SpecSnapshot: one job that runs analysis and texts at most, while a     *)
(* caller reads it through getJob, getStatus and listJobs and writes to    *)
(* the value it was handed.                                                *)
(***************************************************************************)
NextSnapshot ==
  \/ Calls(ValidImages, ShortOptions, MaxRuns)
  \/ \E id \in JobIds, env \in AnalysisEnvs : AnalysisSettles(id, env)
  \/ \E id \in JobIds, env \in TextEnvs : TextsSettle(id, env)
  \/ \E id \in JobIds : GetJob(id)
  \/ \E id \in JobIds : GetStatus(id)
  \/ ListJobs
  \/ CallerWritesStatus("failed")
  \/ CallerWritesProgress("texts", "failed")

SpecSnapshot == InitShort /\ [][NextSnapshot]_vars

(***************************************************************************)
(* SpecReaper: jobs that run analysis and texts at most while time passes  *)
(* and callers of the queue module call cleanupOldJobs.                    *)
(***************************************************************************)
ReaperConfigs(intervals) ==
  [maxConcurrentJobs : {MaxJobs}, claudeApiKey : {TRUE}, openaiApiKey : {TRUE},
   cleanupIntervalMs : intervals]

MaxAges == {0, TickMs, DefaultMaxAgeMs}

NextReaper ==
  \/ Calls(ValidImages, ShortOptions, MaxJobs)
  \/ \E id \in JobIds, env \in AnalysisEnvs : AnalysisSettles(id, env)
  \/ \E id \in JobIds, env \in TextEnvs : TextsSettle(id, env)
  \/ Tick
  \/ \E maxAgeMs \in MaxAges : CleanupOldJobs(maxAgeMs)

SpecReaper ==
  (\E cfg \in ReaperConfigs({DefaultCleanupIntervalMs}) : InitWith(cfg)) /\ [][NextReaper]_vars

(***************************************************************************)
(* SpecInterval: the same jobs under the interval timer of the API object, *)
(* constructed with the default interval, with 0 or with a negative one,   *)
(* and possibly deleted by callers.                                        *)
(***************************************************************************)
NextInterval ==
  \/ Calls(ValidImages, ShortOptions, MaxJobs)
  \/ \E id \in JobIds, env \in AnalysisEnvs : AnalysisSettles(id, env)
  \/ \E id \in JobIds, env \in TextEnvs : TextsSettle(id, env)
  \/ Tick
  \/ ReaperTick
  \/ \E id \in JobIds : DeleteJob(id)

SpecInterval ==
  (\E cfg \in ReaperConfigs({0, -1, DefaultCleanupIntervalMs}) : InitWith(cfg))
  /\ [][NextInterval]_vars

(***************************************************************************)
(* SpecValidation: callers submit requests that are valid or fail one of   *)
(* the checks of startGeneration, to API objects with and without          *)
(* credentials, while the job admitted is observed by subscribers.         *)
(***************************************************************************)
RejectedImages ==
  {[isBuffer |-> FALSE, length |-> 0, magic |-> "none"],
   [isBuffer |-> TRUE, length |-> 0, magic |-> "none"],
   [isBuffer |-> TRUE, length |-> MaxImageSize + 1, magic |-> "jpeg"],
   [isBuffer |-> TRUE, length |-> MaxImageSize, magic |-> "none"]}

\* Options that are valid, or break one of the rules of validateGenerateOptions.
ValidationOptions ==
  LET base == {o \in OptionsWith(BOOLEAN, {0}) : o.skipPackages /\ o.skipTexts}
  IN base
     \cup {[o EXCEPT !.brandNameLength = MaxBrandNameLength + 1] : o \in base}
     \cup {[o EXCEPT !.productNameLength = MaxProductNameLength + 1] : o \in base}
     \cup {[o EXCEPT !.hasPackageVariations = TRUE, !.packageVariations = v] :
             o \in base,
             v \in {MinPackageVariations - 1, MaxPackageVariations, MaxPackageVariations + 1}}

NextValidation ==
  \/ Calls(ValidImages \cup RejectedImages, ValidationOptions, MaxRuns)
  \/ \E id \in JobIds, env \in AnalysisEnvs : AnalysisSettles(id, env)
  \/ \E id \in JobIds, env \in AdEnvs : AdsSettle(id, env)
  \/ \E id \in JobIds : Subscribe(id) /\ Cardinality(DOMAIN subs') <= 1

SpecValidation == Init /\ [][NextValidation]_vars

(***************************************************************************)
(* SpecThrow: one job that runs analysis and texts at most and is updated  *)
(* by callers, observed by callbacks some of which throw.                  *)
(***************************************************************************)
NextThrow ==
  \/ Calls(ValidImages, ShortOptions, MaxRuns)
  \/ \E id \in JobIds, env \in AnalysisEnvs : AnalysisSettles(id, env)
  \/ \E id \in JobIds, env \in TextEnvs : TextsSettle(id, env)
  \/ \E id \in JobIds : UpdateJobProgress(id, "analysis", "processing") /\ ObservedMutated(id)
  \/ \E id \in JobIds : Subscribe(id) /\ Cardinality(DOMAIN subs') <= MaxSubs
  \/ \E id \in JobIds :
       SubscribeReentrant(id, "thrower") /\ Cardinality(DOMAIN subs') <= MaxSubs

SpecThrow == InitShort /\ [][NextThrow]_vars

(***************************************************************************)
(* SpecVariations: one job with the package stage alone, for every class   *)
(* of analysis autoSelectVariations tells apart and every number of        *)
(* variations startGeneration accepts.                                     *)
(***************************************************************************)
AllAnalyses ==
  [category : {"cosmetics", "electronics", "food", "beverage", "other"},
   texture : {"metallic", "glossy", "matte", "rough"}]

VariationOptions ==
  LET base == {o \in ValidOptions : ~o.skipPackages /\ o.skipAds /\ o.skipTexts}
  IN base \cup {[o EXCEPT !.hasPackageVariations = TRUE, !.packageVariations = n] :
                  o \in base, n \in MinPackageVariations .. MaxPackageVariations}

\* The package stage when every image request succeeds, and when the first fails.
ImagesSucceed ==
  [moduleLoads |-> TRUE, templateLoads |-> TRUE, promptsValid |-> TRUE, failing |-> "none"]

FirstImageFails == [ImagesSucceed EXCEPT !.failing = "first"]

NextVariations ==
  \/ Calls(ValidImages, VariationOptions, MaxRuns)
  \/ \E id \in JobIds, a \in AllAnalyses :
       AnalysisSettles(id, [moduleLoads |-> TRUE, failed |-> FALSE, analysis |-> a])
  \/ \E id \in JobIds, env \in {ImagesSucceed, FirstImageFails} : PackagesSettle(id, env)

SpecVariations == InitShort /\ [][NextVariations]_vars

(***************************************************************************)
(* SpecEstimate: one job started with every combination of the options     *)
(* estimateProcessingTime reads.                                           *)
(***************************************************************************)
EstimateOptions ==
  {[o EXCEPT !.hasPackageVariations = v # 0, !.packageVariations = v,
             !.hasAdPlatforms = p # <<"default">>,
             !.adPlatforms = IF p = <<"default">> THEN <<>> ELSE p] :
     o \in ValidOptions,
     v \in {0, MinPackageVariations, DefaultPackageVariations, DefaultPackageVariations + 1},
     p \in {<<"default">>, <<>>, <<"twitter-card">>, <<"instagram-square", "twitter-card">>}}

NextEstimate ==
  \/ Calls(ValidImages, EstimateOptions, MaxRuns)
  \/ PipelineStep

SpecEstimate == InitShort /\ [][NextEstimate]_vars

(***************************************************************************)
(* SpecProbe: one job that runs analysis and texts at most, observed by    *)
(* callbacks that read the active count when they are called.              *)
(***************************************************************************)
NextProbe ==
  \/ Calls(ValidImages, ShortOptions, MaxRuns)
  \/ \E id \in JobIds, env \in AnalysisEnvs : AnalysisSettles(id, env)
  \/ \E id \in JobIds, env \in TextEnvs : TextsSettle(id, env)
  \/ \E id \in JobIds :
       SubscribeReentrant(id, "prober") /\ Cardinality(DOMAIN subs') <= MaxSubs

SpecProbe == InitShort /\ [][NextProbe]_vars

(***************************************************************************)
(* Claims about admission, checked under SpecAdmission.                    *)
(***************************************************************************)
\* The active count the admission check reads, and the limit it compares it with.
ActiveCount == Cardinality(processingJobs)

EffectiveLimit ==
  IF config.maxConcurrentJobs = 0 THEN DefaultMaxConcurrentJobs
  ELSE config.maxConcurrentJobs

NothingStarted ==
  /\ jobs' = jobs
  /\ pipeline' = pipeline
  /\ processingJobs' = processingJobs
  /\ nextJobId' = nextJobId

AdmissionInputs == (ValidImages \cup InvalidImages) \X AdmissionOptions

ProcessingJobs(js) == {id \in DOMAIN js : js[id].status = "processing"}

\* C2: with maxConcurrentJobs = M >= 1, after every step of every interleaving of
\* startGeneration calls and pipeline steps at most M jobs are being processed (in
\* processingJobs, and in status 'processing'), and a valid startGeneration made while
\* fewer than M jobs are active is admitted: its job is stored and its pipeline runs.
C2_BoundedConcurrency ==
  [][config.maxConcurrentJobs >= 1
     => /\ Cardinality(processingJobs') <= config.maxConcurrentJobs
        /\ Cardinality(ProcessingJobs(jobs')) <= config.maxConcurrentJobs
        /\ \A call \in AdmissionInputs :
             (/\ ActiveCount < config.maxConcurrentJobs
              /\ validate(config, call[1], call[2]) = "ok"
              /\ StartGeneration(call[1], call[2]))
             => /\ lastResponse'.kind = "ok"
                /\ lastResponse'.jobId \in DOMAIN jobs' \ DOMAIN jobs
                /\ lastResponse'.jobId \in processingJobs'
                /\ lastResponse'.jobId \in DOMAIN pipeline']_vars

\* Two jobs run at once under a limit of two.
C2_Witness ==
  /\ config.maxConcurrentJobs = 2
  /\ Cardinality(processingJobs) = 2
  /\ Cardinality(ProcessingJobs(jobs)) = 2

(***************************************************************************)
(* Claims about the pipeline of one job, checked under Spec.               *)
(***************************************************************************)
Branches == {"packages", "ads", "texts"}

\* The status createJob gives a branch.
CreatedStatus(options, step) ==
  IF \/ step = "packages" /\ options.skipPackages
     \/ step = "ads" /\ options.skipAds
     \/ step = "texts" /\ options.skipTexts
  THEN "skipped" ELSE "pending"

\* C3: a job whose status is 'completed' has its analysis 'done' and each of packages,
\* ads and texts 'done', 'failed' or 'skipped'.
C3_CompletedStages ==
  \A id \in DOMAIN jobs :
    jobs[id].status = "completed"
    => /\ jobs[id].progress.analysis = "done"
       /\ \A step \in Branches : jobs[id].progress[step] \in {"done", "failed", "skipped"}

\* A job has completed with a branch done, a branch failed and a branch skipped.
C3_Witness ==
  \E id \in DOMAIN jobs :
    /\ jobs[id].status = "completed"
    /\ \E a, b, c \in Branches :
         /\ jobs[id].progress[a] = "done"
         /\ jobs[id].progress[b] = "failed"
         /\ jobs[id].progress[c] = "skipped"

\* C4: when the analysis call fails, the analysis stage is 'failed', the job is 'failed'
\* with a non-empty error, the run is over without any package, ad or text adapter
\* called (no output of theirs exists) and packages, ads and texts keep the status they
\* had at creation; conversely a job is 'failed' only if its analysis is 'failed'.
C4_AnalysisFatal ==
  \A id \in DOMAIN jobs :
    /\ jobs[id].progress.analysis = "failed"
       => /\ jobs[id].status = "failed"
          /\ jobs[id].error.set /\ jobs[id].error.val # <<>>
          /\ pipeline[id].pc = "done"
          /\ pipeline[id].result = EmptyResult
          /\ \A step \in Branches :
               jobs[id].progress[step] = CreatedStatus(jobs[id].options, step)
    /\ jobs[id].status = "failed" => jobs[id].progress.analysis = "failed"

\* The analysis of a job with a pending and a skipped branch has failed.
C4_Witness ==
  \E id \in DOMAIN jobs :
    /\ jobs[id].status = "failed"
    /\ jobs[id].progress.analysis = "failed"
    /\ jobs[id].progress.packages = "pending"
    /\ jobs[id].progress.texts = "skipped"

\* The outcome of the adapter of `step` of job id under env, as processJob gets it.
AdapterOutcome(step, id, env) ==
  IF step = "packages"
  THEN runPackageGeneration(pipeline[id].result.analysis.val, pipeline[id].options,
                            config, env)
  ELSE IF step = "ads"
  THEN runAdGeneration(pipeline[id].result.analysis.val, pipeline[id].options, config, env)
  ELSE runTextGeneration(pipeline[id].result.analysis.val, pipeline[id].options,
                         config, env)

Settles(step, id, env) ==
  IF step = "packages" THEN PackagesSettle(id, env)
  ELSE IF step = "ads" THEN AdsSettle(id, env)
  ELSE TextsSettle(id, env)

EnvsOf(step) ==
  IF step = "packages" THEN PackageEnvs ELSE IF step = "ads" THEN AdEnvs ELSE TextEnvs

\* C5: after a successful analysis, a branch whose adapter raises becomes 'failed' and
\* one whose adapter returns becomes 'done' and neither changes afterwards; when the run
\* is over the job is 'completed' with error unset, every non-skipped branch is 'done'
\* or 'failed', and the stored result has no field for a failed branch.
C5_PartialFailure ==
  [][\A id \in DOMAIN jobs' :
       /\ \A step \in Branches :
            /\ Awaiting(id, step)
               => \A env \in EnvsOf(step) :
                    Settles(step, id, env)
                    => jobs'[id].progress[step] =
                         IF AdapterOutcome(step, id, env).threw THEN "failed" ELSE "done"
            /\ (id \in DOMAIN jobs /\ jobs[id].progress[step] \in {"done", "failed"})
               => jobs'[id].progress[step] = jobs[id].progress[step]
       /\ (pipeline'[id].pc = "done" /\ jobs'[id].progress.analysis = "done")
          => /\ jobs'[id].status = "completed"
             /\ jobs'[id].error = Unset
             /\ jobs'[id].result.set
             /\ \A step \in Branches :
                  /\ jobs'[id].progress[step] \in {"done", "failed", "skipped"}
                  /\ jobs'[id].progress[step] = "failed"
                     => jobs'[id].result.val[step] = Unset]_vars

\* All three branches have failed and the job is completed without a field of theirs.
C5_Witness ==
  \E id \in DOMAIN jobs :
    /\ jobs[id].status = "completed"
    /\ \A step \in Branches : jobs[id].progress[step] = "failed"
    /\ jobs[id].error = Unset
    /\ jobs[id].result.set
    /\ \A step \in Branches : jobs[id].result.val[step] = Unset

\* Every call the module, the template and the prompts allow is made, and every
\* image-synthesis call fails.
AllImagesFail(env) ==
  /\ env.moduleLoads
  /\ env.failing = "all"

\* C6: when every image-synthesis call fails (every per-variation package generation,
\* every per-platform ad generation) while analysis and text generation succeed, the
\* packages stage and the ads stage end 'failed', texts ends 'done' and the job ends
\* 'completed'.
C6_ImageFailuresFailStages ==
  [][\A id \in DOMAIN jobs' :
       /\ Awaiting(id, "packages")
          => \A env \in PackageEnvs :
               (/\ AllImagesFail(env) /\ env.templateLoads /\ env.promptsValid
                /\ PackagesSettle(id, env))
               => jobs'[id].progress.packages = "failed"
       /\ Awaiting(id, "ads")
          => \A env \in AdEnvs :
               (AllImagesFail(env) /\ AdsSettle(id, env))
               => jobs'[id].progress.ads = "failed"
       /\ Awaiting(id, "texts")
          => \A env \in TextEnvs :
               (env.moduleLoads /\ env.failed = {} /\ TextsSettle(id, env))
               => /\ jobs'[id].progress.texts = "done"
                  /\ jobs'[id].status = "completed"]_vars

\* C8: a branch is 'skipped' exactly when its skip option is set, from creation on and
\* in every later state of the run; the adapter of a skipped branch is never awaited and
\* leaves no output; the analysis stage is never 'skipped'.
C8_SkippedStays ==
  \A id \in DOMAIN jobs :
    /\ jobs[id].progress.analysis # "skipped"
    /\ \A step \in Branches :
         /\ jobs[id].progress[step] = "skipped"
            <=> CreatedStatus(jobs[id].options, step) = "skipped"
         /\ CreatedStatus(jobs[id].options, step) = "skipped"
            => /\ pipeline[id].pc # step
               /\ pipeline[id].result[step] = Unset

\* A run is over with ads skipped and the other two branches run.
C8_Witness ==
  \E id \in DOMAIN jobs :
    /\ pipeline[id].pc = "done"
    /\ jobs[id].options.skipAds
    /\ jobs[id].progress.ads = "skipped"
    /\ jobs[id].progress.packages = "done"
    /\ jobs[id].progress.texts = "done"

(***************************************************************************)
(* Claims about terminal states, checked under SpecStore.                  *)
(***************************************************************************)
Terminal == {"completed", "failed"}

\* C7: once the status of a job is 'completed' or 'failed', no later call of
\* updateJobStatus, updateJobProgress, setJobResult or setJobError and no later step of
\* its pipeline changes the status to another value.
C7_TerminalIsFinal ==
  [][\A id \in DOMAIN jobs :
       jobs[id].status \in Terminal => jobs'[id].status = jobs[id].status]_vars

(***************************************************************************)
(* Claims about the progress bus, checked under SpecBus.                   *)
(***************************************************************************)
RECURSIVE TerminalEvents(_)
\* The number of 'complete' and 'error' events in a log.
TerminalEvents(log) ==
  IF log = <<>> THEN 0
  ELSE (IF Head(log).type \in {"complete", "error"} THEN 1 ELSE 0)
       + TerminalEvents(Tail(log))

\* Callback c was registered while its job existed and was not yet terminal.
RegisteredBeforeTerminal(c) ==
  /\ subs[c].log # <<>>
  /\ subs[c].log[1].replay
  /\ subs[c].log[1].type = "progress"

\* C9: a subscriber registered for a job before its pipeline is terminal, whose handle
\* was never invoked and whose job was not deleted, has received exactly one 'complete'
\* or 'error' event once the processJob run is over.
C9_OneTerminalEvent ==
  \A c \in DOMAIN subs :
    (/\ RegisteredBeforeTerminal(c)
     /\ ~subs[c].unsubscribed
     /\ subs[c].jobId \in DOMAIN jobs
     /\ pipeline[subs[c].jobId].pc = "done")
    => TerminalEvents(subs[c].log) = 1

\* C10: subscribeProgress on an existing job calls the callback exactly once before it
\* returns, with the current status and progress of the job; in every log that replay is
\* the first entry and the only replay, and each later entry is a mutation applied after
\* the state that was replayed.
C10_ReplayFirst ==
  [][/\ \A c \in DOMAIN subs' \ DOMAIN subs :
          subs'[c].jobId \in DOMAIN jobs
          => /\ Len(subs'[c].log) = 1
             /\ subs'[c].log[1].replay
             /\ subs'[c].log[1].status = jobs[subs'[c].jobId].status
             /\ subs'[c].log[1].progress = jobs[subs'[c].jobId].progress
     /\ \A c \in DOMAIN subs' :
          \A i \in 2 .. Len(subs'[c].log) :
            /\ ~subs'[c].log[i].replay
            /\ subs'[c].log[1].replay
               => subs'[c].log[i].version > subs'[c].log[1].version]_vars

\* A subscriber of a job in progress was replayed the state 'processing' and then told
\* of a later mutation.
C10_Witness ==
  \E c \in DOMAIN subs :
    /\ Len(subs[c].log) >= 2
    /\ subs[c].log[1].replay
    /\ subs[c].log[1].status = "processing"
    /\ ~subs[c].log[2].replay
    /\ subs[c].log[2].version > subs[c].log[1].version

(***************************************************************************)
(* Claims about callbacks that call back into the store, checked under     *)
(* SpecReentrant.                                                          *)
(***************************************************************************)
\* The job states a callback was notified of (the replay left out), in the order of
\* the calls.
Observed(c) ==
  LET notified == SelectSeq(subs[c].log, LAMBDA ev : ~ev.replay)
  IN [i \in 1 .. Len(notified) |->
        [status |-> notified[i].status, progress |-> notified[i].progress,
         version |-> notified[i].version]]

\* The last n entries of a sequence.
Last(seq, n) == SubSeq(seq, Len(seq) - n + 1, Len(seq))

\* Callbacks c and d are registered in the Set of the same job, c from before d.
BothSubscribed(c, d) ==
  /\ c < d
  /\ subs[c].jobId = subs[d].jobId
  /\ subs[c].set = subs[d].set
  /\ ~subs[c].unsubscribed /\ ~subs[d].unsubscribed

\* C11: two subscribers of one job observe, over the mutations applied while both are
\* subscribed, the same sequence of job states, in the order in which the store applied
\* the mutations (versions increase) -- also when a callback itself mutates the job.
C11_SameOrder ==
  \A c, d \in DOMAIN subs :
    BothSubscribed(c, d)
    => /\ Len(Observed(d)) <= Len(Observed(c))
       /\ Last(Observed(c), Len(Observed(d))) = Observed(d)
       /\ \A i \in 1 .. Len(Observed(d)) - 1 :
            Observed(d)[i].version < Observed(d)[i + 1].version

\* C13: once the unsubscribe handle of a callback has returned, the callback is never
\* called again, whatever mutations are applied to the job afterwards.
C13_SilentAfterUnsubscribe ==
  [][\A c \in DOMAIN subs :
       subs[c].unsubscribed => subs'[c].log = subs[c].log]_vars

\* A callback unsubscribed while its job was in progress, and the job has moved on to a
\* terminal state since.
C13_Witness ==
  \E c \in DOMAIN subs :
    /\ subs[c].unsubscribed
    /\ subs[c].log # <<>>
    /\ subs[c].log[Len(subs[c].log)].type = "progress"
    /\ subs[c].jobId \in DOMAIN jobs
    /\ jobs[subs[c].jobId].status \in Terminal
    /\ applied[subs[c].jobId] > subs[c].log[Len(subs[c].log)].version

\* C14: a subscriber registered after the terminal transition of a job has been applied
\* -- also from inside the callback of another subscriber for that terminal event --
\* receives exactly one event, the replay of the terminal state, and no further event.
C14_LateSubscriberOneEvent ==
  \A c \in DOMAIN subs :
    (/\ subs[c].log # <<>>
     /\ subs[c].log[1].replay
     /\ subs[c].log[1].type \in {"complete", "error"})
    => Len(subs[c].log) = 1

(***************************************************************************)
(* Claims about the store seen by its subscribers, checked under           *)
(* SpecObserved.                                                           *)
(***************************************************************************)
\* Callback c is in the Set registered for job id.
Registered(c, id) ==
  /\ id \in DOMAIN progressCallbacks
  /\ Includes(callbackSets[progressCallbacks[id]], c)

\* Callback c is called exactly once in the step.
CalledOnce(c) == Len(subs'[c].log) = Len(subs[c].log) + 1

\* C12: each successful call of updateJobStatus, updateJobProgress, setJobResult or
\* setJobError on an existing job delivers exactly one event to every subscriber
\* registered for the job at the time.
C12_OneEventPerMutation ==
  [][\A id \in DOMAIN jobs : \A c \in DOMAIN subs :
       Registered(c, id)
       => /\ \A status \in JobStatuses : UpdateJobStatus(id, status) => CalledOnce(c)
          /\ \A step \in Steps, stepStatus \in StepStatuses :
               UpdateJobProgress(id, step, stepStatus) => CalledOnce(c)
          /\ SetJobResult(id, EmptyResult) => CalledOnce(c)
          /\ SetJobError(id, <<"cancelled">>) => CalledOnce(c)]_vars

\* The ids handed out whose record is gone: createJob is the only function that adds
\* a record, and it draws a fresh id, so these are the ids deleted.
Deleted == JobIds \ DOMAIN jobs

\* A mutator applied to id finds no job: it returns undefined and changes nothing.
NotFound(S, id) == S = Store /\ getJob(S, id) = Unset

\* C19: after deleteJob(id) has returned true the id stays absent: getJob(id) finds
\* nothing, another deleteJob(id) returns false, and every later updateJobStatus,
\* updateJobProgress, setJobResult or setJobError on the id -- those of a pipeline
\* still running for it included -- finds nothing, re-creates no record and delivers no
\* event to any subscriber.
C19_DeletedStaysAbsent ==
  [][\A id \in JobIds :
       /\ (deleteJobReturns(Store, id) /\ DeleteJob(id)) => id \notin DOMAIN jobs'
       /\ id \in Deleted
          => /\ getJob(Store, id) = Unset
             /\ ~deleteJobReturns(Store, id)
             /\ \A status \in JobStatuses : NotFound(updateJobStatus(Store, id, status), id)
             /\ \A step \in Steps, stepStatus \in StepStatuses :
                  NotFound(updateJobProgress(Store, id, step, stepStatus), id)
             /\ NotFound(setJobResult(Store, id, EmptyResult), id)
             /\ NotFound(setJobError(Store, id, <<"cancelled">>), id)
             /\ id \notin DOMAIN jobs'
             /\ \A c \in DOMAIN subs :
                  subs[c].jobId = id => subs'[c].log = subs[c].log]_vars

\* A job was deleted while its analysis was awaited; its pipeline has run to its end
\* since, under the eyes of a callback subscribed after the deletion.
C19_Witness ==
  \E id \in Deleted :
    /\ pipeline[id].pc = "done"
    /\ applied[id] = 2
    /\ \E c \in DOMAIN subs :
         /\ subs[c].jobId = id
         /\ Registered(c, id)
         /\ subs[c].log = <<>>

(***************************************************************************)
(* Claims about waitForCompletion, checked under SpecWait.                 *)
(***************************************************************************)
Waiters == {c \in DOMAIN subs : subs[c].kind = "waiter"}

\* The state of the job waiter c was called for, when it was called: the replay is
\* the first event the callback gets.
StateAtCall(c) ==
  IF subs[c].log # <<>> /\ subs[c].log[1].replay THEN subs[c].log[1].type ELSE "none"

\* Callback c is in no Set of the store.
Unregistered(c) == \A setId \in DOMAIN callbackSets : ~Includes(callbackSets[setId], c)

\* C15: waitForCompletion called for a job already completed resolves with the job,
\* called for a job already failed it rejects with the error message of the job; in
\* both cases the timer is stopped and no callback stays registered.
C15_SettlesAtOnceWhenTerminal ==
  \A c \in Waiters :
    /\ StateAtCall(c) = "complete"
       => /\ subs[c].promise = "resolved"
          /\ subs[c].outcome = Some([kind |-> "job", jobId |-> subs[c].jobId])
          /\ ~subs[c].timer
          /\ Unregistered(c)
    /\ StateAtCall(c) = "error"
       => /\ subs[c].promise = "rejected"
          /\ subs[c].outcome = Some([kind |-> "error", message |-> subs[c].log[1].message])
          /\ ~subs[c].timer
          /\ Unregistered(c)

\* The terminal events callback c has been called with.
TerminalSeen(c) == SelectSeq(subs[c].log, LAMBDA ev : ev.type \in {"complete", "error"})

\* What waiter c has come to, given the events it has been called with.
SettledAsClaimed(c) ==
  LET w == subs[c]
      seen == TerminalSeen(c)
  IN /\ w.settles <= 1
     /\ w.promise = "pending" => w.timer /\ seen = <<>> /\ w.settles = 0
     /\ w.promise = "resolved"
        => /\ w.outcome = Some([kind |-> "job", jobId |-> w.jobId])
           /\ Len(seen) = 1
           /\ w.log[Len(w.log)].type = "complete"
     /\ w.promise = "rejected"
        => \/ w.outcome = Some([kind |-> "timeout", message |-> Unset]) /\ seen = <<>>
           \/ /\ Len(seen) = 1
              /\ w.log[Len(w.log)].type = "error"
              /\ w.outcome = Some([kind |-> "error", message |-> seen[1].message])
     /\ w.promise # "pending" => ~w.timer /\ w.unsubscribed /\ w.settles = 1

\* C16: waitForCompletion called for a job that is not terminal settles exactly once:
\* it resolves with the job on the first 'complete' event, rejects with the error of
\* the job on the first 'error' event, and rejects with a timeout otherwise; once it
\* has settled its callback is registered nowhere, its timer is stopped, and no later
\* step calls the callback or changes the outcome.
C16_SettlesOnce ==
  [][\A c \in DOMAIN subs' :
       subs'[c].kind = "waiter" /\ subs'[c].log # <<>> /\ subs'[c].log[1].type = "progress"
       => /\ SettledAsClaimed(c)'
          /\ subs'[c].promise # "pending" => Unregistered(c)'
          /\ (c \in DOMAIN subs /\ subs[c].promise # "pending") => subs'[c] = subs[c]]_vars

\* Two calls made while the job was processing: one has resolved with the job on its
\* 'complete' event, the other had timed out before.
C16_Witness ==
  \E c, d \in Waiters :
    /\ StateAtCall(c) = "progress" /\ StateAtCall(d) = "progress"
    /\ subs[c].promise = "resolved"
    /\ subs[d].promise = "rejected"
    /\ subs[d].outcome.val.kind = "timeout"

(***************************************************************************)
(* Claims about retries, checked under SpecRetry.                          *)
(***************************************************************************)
Transient == {"429", "500", "network"}

\* The requests sent for a prompt whose requests are answered from `script`.
Attempts(script) == Len(script) - Len(generateImage(script).rest)

RECURSIVE AttemptsClaimed(_, _)
\* The attempt the claim stops at: the first one, from attempt i on, whose answer is
\* not a transient error, and the third at the latest.
AttemptsClaimed(script, i) ==
  IF i >= 3 \/ i >= Len(script) \/ script[i] \notin Transient THEN i
  ELSE AttemptsClaimed(script, i + 1)

\* The package stage of job id has produced the design of its first prompt.
FirstDesignMade(id) ==
  /\ pipeline[id].result.packages.set
  /\ Len(pipeline[id].result.packages.val)
       = Len(autoSelectVariations(pipeline[id].result.analysis.val, DefaultPackageVariations))

\* C17: an image request answered by a transient error (network, rate limit, 5xx) is
\* sent again, up to 3 attempts in all, and counts as failed only when the last of
\* them has failed; one answered by an authentication or validation error is sent
\* exactly once.
C17_TransientRetried ==
  [][\A id \in JobIds, script \in Scripts :
       PackagesSettle(id, ScriptedEnv(script))
       => /\ Attempts(script) = AttemptsClaimed(script, 1)
          /\ FirstDesignMade(id)' <=> script[AttemptsClaimed(script, 1)] = "ok"]_vars

(***************************************************************************)
(* Claims about termination, checked under SpecLive.                       *)
(***************************************************************************)
\* C18: every job startGeneration admits eventually is 'completed' or 'failed' with
\* its concurrency slot released, whether the external calls of its stages return
\* or not.
C18_EveryJobSettles ==
  \A id \in 1 .. MaxRuns :
    [](id \in DOMAIN jobs
         => <>(id \in DOMAIN jobs /\ jobs[id].status \in Terminal /\ id \notin processingJobs))

(***************************************************************************)
(* Claims about the values handed to callers, checked under SpecSnapshot.  *)
(***************************************************************************)
\* What the caller reads in the value it holds.
Held(resp) ==
  IF resp.kind = "job" THEN <<jobs[resp.job.ref]>>
  ELSE IF resp.kind = "status"
  THEN <<[jobId |-> resp.jobId, status |-> resp.status,
          progress |-> jobs[resp.progress.ref].progress,
          error |-> resp.error, downloadUrl |-> resp.downloadUrl,
          result |-> IF resp.result.set THEN jobs[resp.result.val.ref].result ELSE Unset]>>
  ELSE IF resp.kind = "list" THEN [i \in 1 .. Len(resp.list) |-> jobs[resp.list[i].ref]]
  ELSE <<>>

CallerWrites ==
  \/ \E status \in JobStatuses : CallerWritesStatus(status)
  \/ \E step \in Steps, stepStatus \in StepStatuses : CallerWritesProgress(step, stepStatus)

\* C20: the value getJob, getStatus or listJobs returned is a snapshot: a write of
\* the caller to it leaves the stored jobs as they are, and as long as the caller
\* leaves it alone it reads the same whatever the store does.
C20_Snapshot ==
  [][/\ CallerWrites => jobs' = jobs
     /\ lastResponse' = lastResponse => Held(lastResponse)' = Held(lastResponse)]_vars

(***************************************************************************)
(* Claims about the reaper, checked under SpecReaper and SpecInterval.     *)
(***************************************************************************)
\* The jobs a reaper tick with time-to-live ttl is to delete.
Expired(ttl) ==
  {id \in DOMAIN jobs : jobs[id].status \in Terminal /\ now - jobs[id].createdAt > ttl}

C22_ZeroDisablesReaper ==
  [][config.cleanupIntervalMs = 0
     => \A id \in DOMAIN jobs \ DOMAIN jobs' : DeleteJob(id)]_vars

(***************************************************************************)
(* Claims about input validation, checked under SpecValidation.            *)
(***************************************************************************)
FieldTags ==
  {"imageBuffer", "brandName", "productName", "packageVariations", "claudeApiKey",
   "openaiApiKey"}

\* The request does not meet the rules for the image, the options or the credentials.
FailsValidation(cfg, image, options) ==
  \/ ~image.isBuffer
  \/ image.length = 0
  \/ image.length > MaxImageSize
  \/ image.magic \notin {"jpeg", "png", "webp"}
  \/ options.brandNameLength > MaxBrandNameLength
  \/ options.productNameLength > MaxProductNameLength
  \/ options.hasPackageVariations
       /\ options.packageVariations \notin MinPackageVariations .. MaxPackageVariations
  \/ ~cfg.claudeApiKey
  \/ ~(options.skipPackages /\ options.skipAds) /\ ~cfg.openaiApiKey

\* C23: a startGeneration call whose image, options or credentials fail validation
\* throws an error that carries a field tag, and changes nothing: no job record, no
\* pipeline, the same active count, no subscriber notified.
C23_RejectedCallHasNoEffect ==
  [][\A image \in ValidImages \cup RejectedImages, options \in ValidationOptions :
       (FailsValidation(config, image, options) /\ StartGeneration(image, options))
       => /\ lastResponse'.kind = "error"
          /\ lastResponse'.field \in FieldTags
          /\ UNCHANGED <<jobs, pipeline, processingJobs, nextJobId, subs,
                         progressCallbacks, callbackSets, applied>>]_vars

\* A call has been rejected for its input while a job ran under the eyes of a
\* subscriber.
C23_Witness ==
  /\ lastResponse.kind = "error"
  /\ lastResponse.field \in FieldTags
  /\ \E id \in processingJobs : \E c \in DOMAIN subs : Registered(c, id)

(***************************************************************************)
(* Claims about the order of the stages, checked under Spec.               *)
(***************************************************************************)
\* C24: whenever one of the stages packages, ads and texts of a job is 'processing',
\* 'done' or 'failed', its analysis stage is 'done': no stage after the analysis
\* starts before the analysis has succeeded.
C24_AnalysisFirst ==
  \A id \in DOMAIN jobs :
    (\E step \in {"packages", "ads", "texts"} :
       jobs[id].progress[step] \in {"processing", "done", "failed"})
    => jobs[id].progress.analysis = "done"

\* The packages stage of a job has failed and its ads stage is running.
C24_Witness ==
  \E id \in DOMAIN jobs :
    /\ jobs[id].progress.packages = "failed"
    /\ jobs[id].progress.ads = "processing"
    /\ jobs[id].progress.analysis = "done"

(***************************************************************************)
(* Claims about callbacks that throw, checked under SpecThrow.             *)
(***************************************************************************)
\* The number of times callback c is called in the step.
TimesCalled(c) == Len(subs'[c].log) - Len(subs[c].log)

\* C25: when the callback of a subscriber throws during a notification, the mutation
\* that caused the notification is applied all the same and every other subscriber
\* of the job is still called with the event.
C25_ThrowingCallbackIsolated ==
  [][\A id \in DOMAIN jobs :
       /\ \A c, d \in DOMAIN subs :
            Registered(c, id) /\ Registered(d, id) => TimesCalled(c) = TimesCalled(d)
       /\ UpdateJobProgress(id, "analysis", "processing")
          => /\ jobs'[id].progress.analysis = "processing"
             /\ applied'[id] = applied[id] + 1
             /\ \A c \in DOMAIN subs : Registered(c, id) => CalledOnce(c)]_vars

\* A callback that throws is registered ahead of one that does not, and the latter
\* has been notified of an event after the former had thrown on it.
C25_Witness ==
  \E c, d \in DOMAIN subs :
    /\ c < d
    /\ subs[c].kind = "thrower" /\ subs[d].kind = "passive"
    /\ \E id \in DOMAIN jobs : Registered(c, id) /\ Registered(d, id)
    /\ Len(subs[d].log) >= 2
    /\ Len(subs[c].log) > Len(subs[d].log)

(***************************************************************************)
(* Claims about the package variations, checked under SpecVariations.      *)
(***************************************************************************)
\* The number of variations asked for: packageVariations, or 3 when it is not given.
RequestedCount(options) ==
  IF options.hasPackageVariations THEN options.packageVariations ELSE 3

Distinct(seq) == \A i, j \in 1 .. Len(seq) : i # j => seq[i] # seq[j]

\* C26: for every analysis and every requested count N in 1..10 the package stage
\* attempts N variations of pairwise distinct styles: when every image request
\* succeeds the result holds N package designs.
C26_RequestedCountProduced ==
  [][\A id \in JobIds :
       PackagesSettle(id, ImagesSucceed)
       => /\ pipeline'[id].result.packages.set
          /\ Len(pipeline'[id].result.packages.val) = RequestedCount(pipeline[id].options)
          /\ Distinct(pipeline'[id].result.packages.val)]_vars

(***************************************************************************)
(* Claims about the time estimate, checked under SpecEstimate.             *)
(***************************************************************************)
\* The closed form of the claim: variationCount is packageVariations, or 3 when that
\* is absent; platformCount is the length of adPlatforms, or 4 when that is absent.
ClaimedEstimate(options) ==
  10
  + (IF options.skipPackages THEN 0
     ELSE 15 * (IF options.hasPackageVariations THEN options.packageVariations ELSE 3))
  + (IF options.skipAds THEN 0
     ELSE 10 * (IF options.hasAdPlatforms THEN Len(options.adPlatforms) ELSE 4))
  + (IF options.skipTexts THEN 0 ELSE 10)

\* C27: the estimate startGeneration returns is 10 + (0 if skipPackages else
\* variationCount * 15) + (0 if skipAds else platformCount * 10) + (0 if skipTexts else
\* 10), so it is strictly smaller when a stage is skipped and strictly larger with
\* more package variations.
C27_EstimateClosedForm ==
  /\ lastResponse.kind = "ok"
     => lastResponse.estimatedTime = ClaimedEstimate(pipeline[lastResponse.jobId].options)
  /\ \A o \in EstimateOptions :
       /\ ~o.skipPackages
          => estimateProcessingTime([o EXCEPT !.skipPackages = TRUE]) < estimateProcessingTime(o)
       /\ ~o.skipAds
          => estimateProcessingTime([o EXCEPT !.skipAds = TRUE]) < estimateProcessingTime(o)
       /\ ~o.skipTexts
          => estimateProcessingTime([o EXCEPT !.skipTexts = TRUE]) < estimateProcessingTime(o)
       /\ (~o.skipPackages /\ o.hasPackageVariations)
          => estimateProcessingTime([o EXCEPT !.packageVariations = @ + 1])
               > estimateProcessingTime(o)

(***************************************************************************)
(* Claims about the active count at termination, checked under SpecProbe.  *)
(***************************************************************************)
\* Callback c is called in the step with a terminal event of its job.
SeesTerminal(c) ==
  /\ c \in DOMAIN subs => Len(subs'[c].log) > Len(subs[c].log)
  /\ subs'[c].log # <<>>
  /\ subs'[c].log[Len(subs'[c].log)].type \in {"complete", "error"}

\* C28: whenever a job is seen 'completed' or 'failed', through getStatus or by a
\* callback that handles its terminal event, the job does not count as active any
\* more: the count read at that moment is the count without the job, so a
\* startGeneration issued then is not rejected because of it.
C28_TerminalNotActive ==
  [][/\ \A id \in DOMAIN jobs' : jobs'[id].status \in Terminal => id \notin processingJobs'
     /\ \A c \in DOMAIN subs' :
          (subs'[c].kind = "prober" /\ SeesTerminal(c))
          => subs'[c].outcome.val.processingCount
               = Cardinality(processingJobs \ {subs'[c].jobId})]_vars

(***************************************************************************)
(* Claims about unsubscribe handles, checked under SpecBus.                *)
(***************************************************************************)
\* C29: invoking an unsubscribe handle, for the first time or again, at any point
\* among the subscribe and unsubscribe calls on the job, removes its own callback
\* only: every other callback registered for the job stays registered, and so keeps
\* receiving the later events of the job.
C29_UnsubscribeRemovesOnlyOwn ==
  [][\A c \in DOMAIN subs :
       Unsubscribe(c)
       => \A d \in DOMAIN subs \ {c}, id \in JobIds :
            Registered(d, id) => Registered(d, id)']_vars

(***************************************************************************)
(* Claims about the active set and the store, checked under SpecInterval.  *)
(***************************************************************************)
\* C30: every job id that counts as active has a record in the store, so
\* getSystemStatus never reports a processingCount above totalJobs, whatever deleteJob
\* and the reaper do while pipelines run.
C30_ActiveJobsExist ==
  /\ processingJobs \subseteq DOMAIN jobs
  /\ getSystemStatus.processingCount <= getSystemStatus.totalJobs

====
